---- MODULE Spec2Model ----
(***************************************************************************)
(* Model of find_coins.py: the greedy change-making function               *)
(* find_coins_greedy and the dynamic-programming function find_min_coins,  *)
(* called one after the other on the same (amount, coins) input, as the    *)
(* driver of the file does.                                                *)
(*                                                                         *)
(* Python values are modelled as follows.                                  *)
(*   list          a sequence; Python index j is position j + 1, and a     *)
(*                 negative index j means len + j (IndexError outside      *)
(*                 -len .. len - 1)                                        *)
(*   dict          a sequence of records [k, v] with distinct keys, in     *)
(*                 insertion order (a Python dict keeps insertion order)   *)
(*   float('inf')  the value Inf, with Python's arithmetic and comparison  *)
(*                 of infinity written out in PyAdd1 and PyLess            *)
(*   exception     the name of the exception in g_out / d_out              *)
(***************************************************************************)
EXTENDS Integers, Sequences, FiniteSets

VARIABLES
    amount,          \* the argument amount of both calls
    coins,           \* the argument coins of both calls
    pc,              \* position of the driver / of the running function
    g_coins,         \* find_coins_greedy: local coins (sorted copy)
    g_idx,           \* find_coins_greedy: position of the for loop in g_coins
    g_amount,        \* find_coins_greedy: local amount (the remaining amount)
    g_result,        \* find_coins_greedy: local result
    g_out,           \* find_coins_greedy: "none", "return" or the exception raised
    min_coins,       \* find_min_coins: local min_coins
    coin_used,       \* find_min_coins: local coin_used
    d_idx,           \* find_min_coins: position of the outer for loop in coins
    current_amount,  \* find_min_coins: local current_amount
    d_result,        \* find_min_coins: local result / returned dict
    d_out            \* find_min_coins: "none", "return" or the exception raised

vars == <<amount, coins, pc, g_coins, g_idx, g_amount, g_result, g_out,
          min_coins, coin_used, d_idx, current_amount, d_result, d_out>>

gvars == <<g_coins, g_idx, g_amount, g_result, g_out>>

dvars == <<min_coins, coin_used, d_idx, current_amount, d_result, d_out>>

(***************************************************************************)
(* Bounds of the inputs.                                                   *)
(***************************************************************************)
MaxAmount == 6

MaxCoin == 4

MaxLen == 3

MaxNeg == 1

Amounts == (0 - MaxNeg)..MaxAmount

CoinValues == (0 - MaxNeg)..MaxCoin

RECURSIVE SeqsUpTo(_, _)
SeqsUpTo(S, n) ==
    IF n = 0 THEN {<<>>}
    ELSE LET shorter == SeqsUpTo(S, n - 1)
         IN  shorter \cup {Append(s, x) : s \in {t \in shorter : Len(t) = n - 1}, x \in S}

CoinLists == SeqsUpTo(CoinValues, MaxLen)

(***************************************************************************)
(* Python arithmetic.                                                      *)
(***************************************************************************)
\* a // b for b # 0: the floor of a / b, for either sign of a and b.
PyFloorDiv(a, b) ==
    IF b > 0 THEN a \div b ELSE (0 - a) \div (0 - b)

\* a % b for b # 0: a - b * (a // b), which has the sign of b.
PyMod(a, b) ==
    a - b * PyFloorDiv(a, b)

\* float('inf')
Inf == -1

\* x + 1, where inf + 1 is inf
PyAdd1(x) ==
    IF x = Inf THEN Inf ELSE x + 1

\* a < b, where inf < anything is False and a finite a < inf is True
PyLess(a, b) ==
    IF a = Inf THEN FALSE ELSE IF b = Inf THEN TRUE ELSE a < b

(***************************************************************************)
(* Python lists: indexing.                                                 *)
(***************************************************************************)
\* Whether list[j] exists
PyInRange(list, j) ==
    (0 - Len(list)) <= j /\ j < Len(list)

\* The position in the sequence of list[j]
PyPos(list, j) ==
    IF j < 0 THEN Len(list) + j + 1 ELSE j + 1

PyGet(list, j) ==
    list[PyPos(list, j)]

PySet(list, j, v) ==
    [list EXCEPT ![PyPos(list, j)] = v]

\* [v] * n, which is [] for n <= 0
PyRepeat(v, n) ==
    IF n <= 0 THEN <<>> ELSE [j \in 1..n |-> v]

(***************************************************************************)
(* Python dicts.                                                           *)
(***************************************************************************)
DictKeys(d) ==
    {d[j].k : j \in 1..Len(d)}

DictHas(d, key) ==
    key \in DictKeys(d)

DictPos(d, key) ==
    CHOOSE j \in 1..Len(d) : d[j].k = key

DictGet(d, key) ==
    d[DictPos(d, key)].v

\* d[key] = value
DictSet(d, key, value) ==
    IF DictHas(d, key)
    THEN [d EXCEPT ![DictPos(d, key)] = [k |-> key, v |-> value]]
    ELSE Append(d, [k |-> key, v |-> value])

\* DictInc with the old count dropped: d[key] = 1
DictInc_Overwrite(d, key) ==
    DictSet(d, key, 1)

\* d[key] += 1 on a defaultdict(int)
DictInc(d, key) ==
    IF DictHas(d, key)
    THEN DictSet(d, key, DictGet(d, key) + 1)
    ELSE DictSet(d, key, 0 + 1)

\* The insertion of item x into the list s, sorted ascending by key
RECURSIVE InsertByKey(_, _)
InsertByKey(s, x) ==
    IF s = <<>> THEN <<x>>
    ELSE IF x.k < Head(s).k THEN <<x>> \o s
    ELSE <<Head(s)>> \o InsertByKey(Tail(s), x)

\* dict(sorted(d.items())): the keys of a dict are distinct, so the items are
\* ordered by key
RECURSIVE SortedItems(_)
SortedItems(d) ==
    IF d = <<>> THEN <<>>
    ELSE InsertByKey(SortedItems(Tail(d)), Head(d))

(***************************************************************************)
(* find_coins_greedy                                                       *)
(***************************************************************************)
\* The insertion of x into the list s, sorted descending; x goes after the
\* elements equal to it (sorted is stable)
RECURSIVE InsertDesc(_, _)
InsertDesc(s, x) ==
    IF s = <<>> THEN <<x>>
    ELSE IF x > Head(s) THEN <<x>> \o s
    ELSE <<Head(s)>> \o InsertDesc(Tail(s), x)

\* SortedDesc with the sort left out: the list as given
SortedDesc_Unsorted(cs) ==
    cs

\* sorted(cs, reverse=True)
RECURSIVE SortedDesc(_)
SortedDesc(cs) ==
    IF cs = <<>> THEN <<>>
    ELSE InsertDesc(SortedDesc(SubSeq(cs, 1, Len(cs) - 1)), cs[Len(cs)])

\* GreedyBreaks with the test left out: the loop never breaks
GreedyBreaks_Never(amt) ==
    FALSE

\* if amount == 0: break
GreedyBreaks(amt) ==
    amt = 0

\* GreedyBody with amount -= coin in place of amount %= coin
GreedyBody_Subtract(amt, result, coin) ==
    LET count == PyFloorDiv(amt, coin)
    IN  IF count > 0
        THEN [amount |-> amt - coin, result |-> DictSet(result, coin, count)]
        ELSE [amount |-> amt, result |-> result]

\* The body of the for loop after the test of amount == 0, for one coin # 0:
\* the new [amount, result]
GreedyBody(amt, result, coin) ==
    LET count == PyFloorDiv(amt, coin)
    IN  IF count > 0
        THEN [amount |-> PyMod(amt, coin), result |-> DictSet(result, coin, count)]
        ELSE [amount |-> amt, result |-> result]

(***************************************************************************)
(* find_min_coins                                                          *)
(***************************************************************************)
\* FillBody with min_coins[i] = min_coins[i - coin], the + 1 forgotten
FillBody_NoIncrement(mc, cu, coin, i) ==
    IF ~PyInRange(mc, i - coin) \/ ~PyInRange(mc, i)
    THEN [mc |-> mc, cu |-> cu, exc |-> TRUE]
    ELSE IF PyLess(PyAdd1(PyGet(mc, i - coin)), PyGet(mc, i))
    THEN [mc |-> PySet(mc, i, PyGet(mc, i - coin)),
          cu |-> PySet(cu, i, coin),
          exc |-> FALSE]
    ELSE [mc |-> mc, cu |-> cu, exc |-> FALSE]

\* FillBody with coin_used[i] = coin left out
FillBody_NoChoice(mc, cu, coin, i) ==
    IF ~PyInRange(mc, i - coin) \/ ~PyInRange(mc, i)
    THEN [mc |-> mc, cu |-> cu, exc |-> TRUE]
    ELSE IF PyLess(PyAdd1(PyGet(mc, i - coin)), PyGet(mc, i))
    THEN [mc |-> PySet(mc, i, PyAdd1(PyGet(mc, i - coin))),
          cu |-> cu,
          exc |-> FALSE]
    ELSE [mc |-> mc, cu |-> cu, exc |-> FALSE]

\* The body of the inner for loop for one i:
\*     if min_coins[i - coin] + 1 < min_coins[i]:
\*         min_coins[i] = min_coins[i - coin] + 1
\*         coin_used[i] = coin
\* exc is TRUE when an index is out of range (IndexError)
FillBody(mc, cu, coin, i) ==
    IF ~PyInRange(mc, i - coin) \/ ~PyInRange(mc, i)
    THEN [mc |-> mc, cu |-> cu, exc |-> TRUE]
    ELSE IF PyLess(PyAdd1(PyGet(mc, i - coin)), PyGet(mc, i))
    THEN [mc |-> PySet(mc, i, PyAdd1(PyGet(mc, i - coin))),
          cu |-> PySet(cu, i, coin),
          exc |-> FALSE]
    ELSE [mc |-> mc, cu |-> cu, exc |-> FALSE]

\* for i in range(from, amt + 1): the body, for one coin. (The result r of the
\* body is bound by a set constructor so that it is computed once.)
RECURSIVE FillCoin(_, _, _, _, _)
FillCoin(mc, cu, coin, from, amt) ==
    IF from >= amt + 1 THEN [mc |-> mc, cu |-> cu, exc |-> FALSE]
    ELSE LET Rest(r) == IF r.exc THEN r
                        ELSE FillCoin(r.mc, r.cu, coin, from + 1, amt)
         IN  CHOOSE t \in {Rest(r) : r \in {FillBody(mc, cu, coin, from)}} : TRUE

\* One iteration of the while loop:
\*     coin = coin_used[current_amount]
\*     result[coin] += 1
\*     current_amount -= coin
ReconBody(cu, cur, result) ==
    IF ~PyInRange(cu, cur)
    THEN [current |-> cur, result |-> result, exc |-> TRUE]
    ELSE LET coin == PyGet(cu, cur)
         IN  [current |-> cur - coin, result |-> DictInc(result, coin), exc |-> FALSE]

\* for coin in cs[k..]: the inner loop
RECURSIVE FillAll(_, _, _, _, _)
FillAll(mc, cu, cs, k, amt) ==
    IF k > Len(cs) THEN [mc |-> mc, cu |-> cu, exc |-> FALSE]
    ELSE LET r == FillCoin(mc, cu, cs[k], cs[k], amt)
         IN  IF r.exc THEN r
             ELSE FillAll(r.mc, r.cu, cs, k + 1, amt)

\* Infeasible with the test made on min_coins[amount - 1]
Infeasible_OffByOne(mc, amt) ==
    PyGet(mc, amt - 1) = Inf

\* if min_coins[amount] == float('inf')
Infeasible(mc, amt) ==
    PyGet(mc, amt) = Inf

\* while current_amount > 0: the body
RECURSIVE Reconstruct(_, _, _)
Reconstruct(cu, cur, result) ==
    IF cur <= 0 THEN [result |-> result, exc |-> FALSE]
    ELSE LET r == ReconBody(cu, cur, result)
         IN  IF r.exc THEN [result |-> result, exc |-> TRUE]
             ELSE Reconstruct(cu, r.current, r.result)

\* The call find_min_coins(amt, cs) as a whole: how it ends (out) and the dict
\* it returns (result)
find_min_coins(amt, cs) ==
    LET mc0 == PyRepeat(Inf, amt + 1)
        raised == [out |-> "IndexError", result |-> <<>>]
    IN  IF ~PyInRange(mc0, 0) THEN raised
        ELSE LET t == FillAll(PySet(mc0, 0, 0), PyRepeat(0, amt + 1), cs, 1, amt)
             IN  IF t.exc THEN raised
                 ELSE IF Infeasible(t.mc, amt) THEN [out |-> "return", result |-> <<>>]
                 ELSE LET r == Reconstruct(t.cu, amt, <<>>)
                      IN  IF r.exc THEN raised
                          ELSE [out |-> "return", result |-> SortedItems(r.result)]

Init ==
    /\ amount \in Amounts
    /\ coins \in CoinLists
    /\ pc = "greedy_call"
    /\ g_coins = <<>>
    /\ g_idx = 1
    /\ g_amount = amount
    /\ g_result = <<>>
    /\ g_out = "none"
    /\ min_coins = <<>>
    /\ coin_used = <<>>
    /\ d_idx = 1
    /\ current_amount = 0
    /\ d_result = <<>>
    /\ d_out = "none"

\* coins = sorted(coins, reverse=True); result = {}
GreedySort ==
    /\ pc = "greedy_call"
    /\ g_coins' = SortedDesc(coins)
    /\ g_result' = <<>>
    /\ pc' = "greedy_loop"
    /\ UNCHANGED <<amount, coins, g_idx, g_amount, g_out>>
    /\ UNCHANGED dvars

\* One iteration of the for loop that does not break and does not raise
GreedyStep ==
    /\ pc = "greedy_loop"
    /\ g_idx <= Len(g_coins)
    /\ ~GreedyBreaks(g_amount)
    /\ g_coins[g_idx] # 0
    /\ LET r == GreedyBody(g_amount, g_result, g_coins[g_idx])
       IN  /\ g_amount' = r.amount
           /\ g_result' = r.result
    /\ g_idx' = g_idx + 1
    /\ UNCHANGED <<amount, coins, pc, g_coins, g_out>>
    /\ UNCHANGED dvars

\* amount // coin with coin == 0
GreedyRaise ==
    /\ pc = "greedy_loop"
    /\ g_idx <= Len(g_coins)
    /\ ~GreedyBreaks(g_amount)
    /\ g_coins[g_idx] = 0
    /\ g_out' = "ZeroDivisionError"
    /\ pc' = "dp_call"
    /\ UNCHANGED <<amount, coins, g_coins, g_idx, g_amount, g_result>>
    /\ UNCHANGED dvars

\* The loop ends (the list is exhausted, or amount == 0: break); return result
GreedyReturn ==
    /\ pc = "greedy_loop"
    /\ (g_idx > Len(g_coins) \/ GreedyBreaks(g_amount))
    /\ g_out' = "return"
    /\ pc' = "dp_call"
    /\ UNCHANGED <<amount, coins, g_coins, g_idx, g_amount, g_result>>
    /\ UNCHANGED dvars

\* min_coins = [inf] * (amount + 1); min_coins[0] = 0;
\* coin_used = [0] * (amount + 1)
\* min_coins[0] = 0 raises IndexError on the empty list
DPInit ==
    /\ pc = "dp_call"
    /\ IF ~PyInRange(PyRepeat(Inf, amount + 1), 0)
       THEN /\ d_out' = "IndexError"
            /\ pc' = "done"
            /\ UNCHANGED <<min_coins, coin_used>>
       ELSE /\ min_coins' = PySet(PyRepeat(Inf, amount + 1), 0, 0)
            /\ coin_used' = PyRepeat(0, amount + 1)
            /\ pc' = "dp_fill"
            /\ UNCHANGED d_out
    /\ UNCHANGED <<amount, coins, d_idx, current_amount, d_result>>
    /\ UNCHANGED gvars

\* One iteration of the outer for loop: the whole inner loop for one coin
DPFillCoin ==
    /\ pc = "dp_fill"
    /\ d_idx <= Len(coins)
    /\ LET r == FillCoin(min_coins, coin_used, coins[d_idx], coins[d_idx], amount)
       IN  IF r.exc
           THEN /\ d_out' = "IndexError"
                /\ pc' = "done"
                /\ UNCHANGED <<min_coins, coin_used, d_idx>>
           ELSE /\ min_coins' = r.mc
                /\ coin_used' = r.cu
                /\ d_idx' = d_idx + 1
                /\ UNCHANGED <<d_out, pc>>
    /\ UNCHANGED <<amount, coins, current_amount, d_result>>
    /\ UNCHANGED gvars

\* if min_coins[amount] == float('inf'): return {}
DPInfeasible ==
    /\ pc = "dp_fill"
    /\ d_idx > Len(coins)
    /\ Infeasible(min_coins, amount)
    /\ d_result' = <<>>
    /\ d_out' = "return"
    /\ pc' = "done"
    /\ UNCHANGED <<amount, coins, min_coins, coin_used, d_idx, current_amount>>
    /\ UNCHANGED gvars

\* result = defaultdict(int); current_amount = amount
DPReconStart ==
    /\ pc = "dp_fill"
    /\ d_idx > Len(coins)
    /\ ~Infeasible(min_coins, amount)
    /\ d_result' = <<>>
    /\ current_amount' = amount
    /\ pc' = "dp_recon"
    /\ UNCHANGED <<amount, coins, min_coins, coin_used, d_idx, d_out>>
    /\ UNCHANGED gvars

\* One iteration of the while loop
DPReconStep ==
    /\ pc = "dp_recon"
    /\ current_amount > 0
    /\ LET r == ReconBody(coin_used, current_amount, d_result)
       IN  IF r.exc
           THEN /\ d_out' = "IndexError"
                /\ pc' = "done"
                /\ UNCHANGED <<current_amount, d_result>>
           ELSE /\ current_amount' = r.current
                /\ d_result' = r.result
                /\ UNCHANGED <<d_out, pc>>
    /\ UNCHANGED <<amount, coins, min_coins, coin_used, d_idx>>
    /\ UNCHANGED gvars

\* return dict(sorted(result.items()))
DPReturn ==
    /\ pc = "dp_recon"
    /\ current_amount <= 0
    /\ d_result' = SortedItems(d_result)
    /\ d_out' = "return"
    /\ pc' = "done"
    /\ UNCHANGED <<amount, coins, min_coins, coin_used, d_idx, current_amount>>
    /\ UNCHANGED gvars

Next ==
    \/ GreedySort
    \/ GreedyStep
    \/ GreedyRaise
    \/ GreedyReturn
    \/ DPInit
    \/ DPFillCoin
    \/ DPInfeasible
    \/ DPReconStart
    \/ DPReconStep
    \/ DPReturn

Spec == Init /\ [][Next]_vars

\* The calls run to completion: a step that can be taken is taken
FairSpec == Spec /\ WF_vars(Next)

\* The stepwise run of find_min_coins ends as the call as a whole does
StepwiseAgrees ==
    pc = "done" =>
        /\ d_out = find_min_coins(amount, coins).out
        /\ d_out = "return" => d_result = find_min_coins(amount, coins).result

(***************************************************************************)
(* Vocabulary of the properties.                                           *)
(***************************************************************************)
Range(seq) ==
    {seq[j] : j \in 1..Len(seq)}

\* The precondition of both functions: amount >= 0, every denomination > 0
ValidInput ==
    amount >= 0 /\ \A j \in 1..Len(coins) : coins[j] > 0

Done ==
    pc = "done"

\* A dict as a mapping: its set of (key, value) pairs, whatever the order
AsMap(d) ==
    {<<d[j].k, d[j].v>> : j \in 1..Len(d)}

\* The sum of denomination * count over a dict
RECURSIVE WeightedSum(_)
WeightedSum(d) ==
    IF d = <<>> THEN 0 ELSE Head(d).k * Head(d).v + WeightedSum(Tail(d))

\* The sum of the counts of a dict
RECURSIVE TotalCount(_)
TotalCount(d) ==
    IF d = <<>> THEN 0 ELSE Head(d).v + TotalCount(Tail(d))

\* The amounts <= limit that exactly n coins of the set S can sum to
RECURSIVE SumsOf(_, _, _)
SumsOf(S, n, limit) ==
    IF n = 0 THEN {0}
    ELSE {t + c : t \in SumsOf(S, n - 1, limit), c \in S} \cap (0..limit)

\* The numbers of coins of S that sum to amt (every coin is >= 1, so at most
\* amt coins)
CountsFor(S, amt) ==
    {n \in 0..amt : amt \in SumsOf(S, n, amt)}

Representable ==
    CountsFor(Range(coins), amount) # {}

MinCount ==
    CHOOSE n \in CountsFor(Range(coins), amount) :
        \A m \in CountsFor(Range(coins), amount) : n <= m

(***************************************************************************)
(* C1: whenever amount >= 0 can be formed from the positive denominations, *)
(* the counts of the mapping find_min_coins returns add up to the minimum  *)
(* number of coins over all combinations that sum to amount.               *)
(***************************************************************************)
C1_MinimumCount ==
    (Done /\ ValidInput /\ Representable) =>
        /\ d_out = "return"
        /\ TotalCount(d_result) = MinCount

\* The scaled decomposeOptimal(12, [9,6,1]) == {6:2}: two coins where greedy
\* takes three
C1_Witness ==
    /\ Done
    /\ amount = 6
    /\ coins = <<4, 3, 1>>
    /\ AsMap(d_result) = {<<3, 2>>}
    /\ TotalCount(g_result) = 3

(***************************************************************************)
(* C2: for amount >= 0 and positive denominations, whenever the mapping    *)
(* find_min_coins returns is non-empty or amount = 0, the sum of           *)
(* denomination * count over it is amount.                                 *)
(***************************************************************************)
C2_RoundTrip ==
    (Done /\ ValidInput) =>
        /\ d_out = "return"
        /\ (d_result # <<>> \/ amount = 0) => WeightedSum(d_result) = amount

\* A returned mapping that uses one denomination more than once and a second
\* denomination
C2_Witness ==
    /\ Done
    /\ ValidInput
    /\ d_out = "return"
    /\ Len(d_result) >= 2
    /\ \E j \in 1..Len(d_result) : d_result[j].v >= 2
    /\ WeightedSum(d_result) = amount

(***************************************************************************)
(* C3: for amount > 0 and positive denominations of which amount is no     *)
(* combination, find_min_coins returns the empty mapping, as a normal      *)
(* return: it raises nothing, never starts the reconstruction and never    *)
(* holds a partial mapping.                                                *)
(***************************************************************************)
C3_InfeasibleEmpty ==
    (ValidInput /\ amount > 0 /\ ~Representable) =>
        /\ pc # "dp_recon"
        /\ d_result = <<>>
        /\ d_out # "IndexError"
        /\ Done => d_out = "return"

\* An amount that is no combination although smaller amounts are
\* (5 from [4, 3]; the example of the specification is 1 from [9, 6])
C3_Witness ==
    /\ Done
    /\ amount = 5
    /\ coins = <<4, 3>>
    /\ d_out = "return"
    /\ d_result = <<>>
    /\ PyGet(min_coins, 4) = 1

(***************************************************************************)
(* C4, as stated: for all inputs (amount >= 0, positive denominations) the *)
(* total coin count of find_min_coins' mapping is at most that of          *)
(* find_coins_greedy's mapping.                                            *)
(***************************************************************************)
C4_AsStated ==
    (Done /\ ValidInput) => TotalCount(d_result) <= TotalCount(g_result)

(***************************************************************************)
(* C4, amended: the same, for the inputs on which the mapping of           *)
(* find_coins_greedy sums to amount exactly.                               *)
(***************************************************************************)
C4_WhenGreedyComplete ==
    (Done /\ ValidInput /\ WeightedSum(g_result) = amount) =>
        TotalCount(d_result) <= TotalCount(g_result)

\* Greedy is complete and uses strictly more coins than the optimum
C4_Witness ==
    /\ Done
    /\ ValidInput
    /\ WeightedSum(g_result) = amount
    /\ d_result # <<>>
    /\ TotalCount(d_result) < TotalCount(g_result)

(***************************************************************************)
(* C5: for amount >= 0 and positive denominations that contain 1, both     *)
(* functions return a mapping whose weighted sum is amount.                *)
(***************************************************************************)
C5_ExactWithOne ==
    (Done /\ ValidInput /\ 1 \in Range(coins)) =>
        /\ g_out = "return"
        /\ d_out = "return"
        /\ WeightedSum(g_result) = amount
        /\ WeightedSum(d_result) = amount

\* 1 is needed: the larger denominations alone leave a remainder
C5_Witness ==
    /\ Done
    /\ ValidInput
    /\ 1 \in Range(coins)
    /\ amount = 6
    /\ <<1, 2>> \in AsMap(g_result)
    /\ WeightedSum(g_result) = 6
    /\ WeightedSum(d_result) = 6

(***************************************************************************)
(* C6: when amount is negative or a denomination is <= 0, both functions   *)
(* reject the call with an error; neither returns a mapping.               *)
(***************************************************************************)
C6_RejectsInvalid ==
    (Done /\ ~ValidInput) =>
        /\ g_out # "return"
        /\ d_out # "return"

(***************************************************************************)
(* C7: for amount = 0 and any list of (positive) denominations, the empty  *)
(* list included, both functions return the empty mapping; greedy leaves   *)
(* its loop before it runs the body once, and find_min_coins never runs    *)
(* the body of its reconstruction loop.                                    *)
(***************************************************************************)
C7_ZeroAmount ==
    (amount = 0 /\ \A j \in 1..Len(coins) : coins[j] > 0) =>
        /\ g_idx = 1
        /\ g_result = <<>>
        /\ d_result = <<>>
        /\ ~ENABLED DPReconStep
        /\ Done => (g_out = "return" /\ d_out = "return")

\* Both calls are over, with denominations to iterate over, and the
\* reconstruction was entered (amount 0 is feasible)
C7_Witness ==
    /\ Done
    /\ amount = 0
    /\ Len(coins) = MaxLen
    /\ \A j \in 1..Len(coins) : coins[j] > 0
    /\ current_amount = 0
    /\ d_idx = Len(coins) + 1
    /\ g_out = "return"
    /\ d_out = "return"
    /\ g_result = <<>>
    /\ d_result = <<>>

\* The reference procedure of C8 on the set S of denominations, largest
\* first: the (denomination, count) pairs it records
RECURSIVE ReferenceGreedy(_, _)
ReferenceGreedy(S, remaining) ==
    IF S = {} THEN {}
    ELSE LET d == CHOOSE x \in S : \A y \in S : y <= x
             q == remaining \div d
         IN  (IF q > 0 THEN {<<d, q>>} ELSE {})
                 \cup ReferenceGreedy(S \ {d}, remaining % d)

(***************************************************************************)
(* C8: for amount >= 0 and positive denominations (any order, duplicates   *)
(* allowed), find_coins_greedy returns the mapping of the reference        *)
(* procedure: denominations visited in descending order, d -> remaining    *)
(* div d recorded when that is > 0, then remaining = remaining mod d. No   *)
(* key has the count zero, and a denomination given twice changes nothing. *)
(***************************************************************************)
C8_GreedyIsReference ==
    (Done /\ ValidInput) =>
        /\ g_out = "return"
        /\ AsMap(g_result) = ReferenceGreedy(Range(coins), amount)
        /\ \A j \in 1..Len(g_result) : g_result[j].v > 0

\* The scaled decomposeGreedy(12, [9,6,1]) == {9:1, 1:3}, with the list
\* unsorted and a denomination given twice
C8_Witness ==
    /\ Done
    /\ amount = 6
    /\ coins = <<1, 4, 4>>
    /\ AsMap(g_result) = {<<4, 1>>, <<1, 2>>}

\* The permutations of a list
Permutations(seq) ==
    LET n == Len(seq)
    IN  {[j \in 1..n |-> seq[f[j]]] :
            f \in {g \in [1..n -> 1..n] : \A a, b \in 1..n : g[a] = g[b] => a = b}}

(***************************************************************************)
(* C9, as stated: for amount >= 0 and positive denominations,              *)
(* find_min_coins returns the same mapping for every permutation of the    *)
(* list of denominations.                                                  *)
(***************************************************************************)
C9_AsStated ==
    (Done /\ ValidInput) =>
        \A p \in Permutations(coins) :
            /\ find_min_coins(amount, p).out = d_out
            /\ AsMap(find_min_coins(amount, p).result) = AsMap(d_result)

(***************************************************************************)
(* C9, amended: for amount >= 0 and positive denominations, the mappings   *)
(* find_min_coins returns for the permutations of the list have the same   *)
(* total coin count and the same weighted sum.                             *)
(***************************************************************************)
C9_CountOrderIndependent ==
    (Done /\ ValidInput) =>
        \A p \in Permutations(coins) :
            /\ find_min_coins(amount, p).out = d_out
            /\ TotalCount(find_min_coins(amount, p).result) = TotalCount(d_result)
            /\ WeightedSum(find_min_coins(amount, p).result) = WeightedSum(d_result)

\* Two orders of the same denominations give two mappings of the same count
C9_Witness ==
    /\ Done
    /\ ValidInput
    /\ \E p \in Permutations(coins) :
           /\ AsMap(find_min_coins(amount, p).result) # AsMap(d_result)
           /\ TotalCount(find_min_coins(amount, p).result) = TotalCount(d_result)

\* What C10 says of an index visited by the reconstruction loop
VisitedIndexSound ==
    (ValidInput /\ pc = "dp_recon") =>
        /\ ~Infeasible(min_coins, amount)
        /\ 0 <= current_amount
        /\ current_amount <= amount
        /\ current_amount > 0 =>
               LET d == PyGet(coin_used, current_amount)
               IN  /\ 1 <= d
                   /\ d <= current_amount
                   /\ PyGet(min_coins, current_amount - d) # Inf

\* A step of the reconstruction loop makes current_amount smaller
ReconDecreases ==
    (ValidInput /\ pc = "dp_recon" /\ pc' = "dp_recon") =>
        (current_amount' < current_amount /\ current_amount' >= 0)

(***************************************************************************)
(* C10: for amount >= 0 and positive denominations find_min_coins          *)
(* terminates: every index current_amount the reconstruction loop visits   *)
(* has coin_used[current_amount] = d with 1 <= d <= current_amount and a   *)
(* finite min_coins[current_amount - d], so current_amount strictly        *)
(* decreases, stays >= 0, and the call ends.                               *)
(***************************************************************************)
C10_Terminates ==
    /\ []VisitedIndexSound
    /\ [][ReconDecreases]_vars
    /\ (ValidInput => <>Done)

\* The reconstruction loop ran at least three times and ended
C10_Witness ==
    /\ Done
    /\ ValidInput
    /\ d_out = "return"
    /\ TotalCount(d_result) >= 3

====
